---------------------------- MODULE Spec2Model ----------------------------
(***************************************************************************)
(* cpass (src/cpass.py): a terminal browser over the password store.       *)
(*                                                                         *)
(* Modelled state: the directory cache Pass.all_pass (one FolderWalker per *)
(* path: its nodes and its remembered cursor pos), the list box (root,     *)
(* body, focus position, offset rows), the modal session of the UI         *)
(* (_edit_type, the edit box text, _insert_node, _insert_pass), the        *)
(* message box, and the calls made to the external store.                  *)
(*                                                                         *)
(* Representation.  A name is a string, written as the sequence of its     *)
(* character codes, so that Python's string order and str.startswith are   *)
(* computed and not assumed.  A path is the sequence of its segments       *)
(* ('' is << >>).  Names typed by the operator contain no '/'.             *)
(* The preview pane (its text, _last_preview, _preview_shown) reads the    *)
(* state below and never writes it; it is not part of the model.           *)
(***************************************************************************)
EXTENDS Integers, Sequences, FiniteSets, TLC

(***************************************************************************)
(* Bounds of the model.                                                    *)
(***************************************************************************)
\* the operator opens at most MaxSessions modal sessions in a run
MaxSessions == 1

\* the operator of the round trip scenario opens at most RoundTripSessions
\* modal sessions
RoundTripSessions == 4

\* size[1], the rows the list box is given
WindowHeight == 2

\* the navigation runs: a list of 1..MaxLeaves leaves in a list box of
\* 1..MaxHeight rows
MaxLeaves == 4
MaxHeight == 4

(***************************************************************************)
(* Strings.                                                                *)
(***************************************************************************)
\* PassNode(None, ...): the name of the empty node; no string has a
\* negative character code
None == << -1 >>

\* ''
EmptyStr == << >>

\* '.git'
DotGit == <<46, 103, 105, 116>>

\* '.github', a directory name that starts with '.git'
DotGitHub == <<46, 103, 105, 116, 104, 117, 98>>

\* 'a', 'b', 'c', 'd'
NameA == <<97>>
NameB == <<98>>
NameC == <<99>>
NameD == <<100>>

\* str.startswith
StartsWith(s, prefix) ==
    /\ Len(prefix) <= Len(s)
    /\ SubSeq(s, 1, Len(prefix)) = prefix

\* Python's < on str: the first differing character decides, a proper
\* prefix is smaller
RECURSIVE StrLess(_, _)
StrLess(s, t) ==
    IF t = << >> THEN FALSE
    ELSE IF s = << >> THEN TRUE
    ELSE IF Head(s) # Head(t) THEN Head(s) < Head(t)
    ELSE StrLess(Tail(s), Tail(t))

\* os.path.join(root, node) for a relative node without '/'
join(path, node) == Append(path, node)

\* os.path.dirname(root); dirname('') = ''
dirname(path) ==
    IF path = << >> THEN << >> ELSE SubSeq(path, 1, Len(path) - 1)

(***************************************************************************)
(* PassNode and FolderWalker.                                              *)
(***************************************************************************)
\* PassNode.count of a node that is no directory: ''
NoCount == -1

\* PassNode.count when Pass.all_pass has no entry for the directory: the
\* constructor raises KeyError
KeyErrorCount == -2

\* PassNode.__init__(node, root, isdir) with Pass.all_pass = cache
PassNode(node, path, isdir, cache) ==
    [node |-> node,
     isdir |-> isdir,
     count |-> IF isdir
               THEN IF join(path, node) \in DOMAIN cache
                    THEN Len(cache[join(path, node)].nodes)
                    ELSE KeyErrorCount
               ELSE NoCount]

\* PassNode(None, None)
EmptyNode == [node |-> None, isdir |-> FALSE, count |-> NoCount]

\* sorted(list of nodes, key=lambda n: n.node): a stable insertion sort
RECURSIVE InsertByName(_, _)
InsertByName(sortedSeq, n) ==
    IF sortedSeq = << >> THEN <<n>>
    ELSE IF StrLess(n.node, Head(sortedSeq).node)
         THEN <<n>> \o sortedSeq
         ELSE <<Head(sortedSeq)>> \o InsertByName(Tail(sortedSeq), n)

RECURSIVE SortedByName(_)
SortedByName(seq) ==
    IF seq = << >> THEN << >>
    ELSE InsertByName(SortedByName(SubSeq(seq, 1, Len(seq) - 1)), seq[Len(seq)])

\* [n for n in self if n.isdir] and [n for n in self if not n.isdir]
SelectDirs(seq) == SelectSeq(seq, LAMBDA n : n.isdir)
SelectFiles(seq) == SelectSeq(seq, LAMBDA n : ~n.isdir)

\* sorted(names): the names of a set in ascending order
RECURSIVE SortedNames(_)
SortedNames(S) ==
    IF S = {} THEN << >>
    ELSE LET m == CHOOSE x \in S : \A y \in S \ {x} : StrLess(x, y)
         IN  <<m>> \o SortedNames(S \ {m})

\* FolderWalker.__init__(root, dirs, files) with Pass.all_pass = cache
FolderWalker(path, dirs, files, cache) ==
    LET ds == SortedNames(dirs)
        fs == SortedNames(files)
        listed == [i \in 1..Len(ds) |-> PassNode(ds[i], path, TRUE, cache)]
                  \o [i \in 1..Len(fs) |-> PassNode(fs[i], path, FALSE, cache)]
    IN  [pos |-> 0,
         nodes |-> IF Len(listed) = 0 THEN <<EmptyNode>> ELSE listed]

\* the index of the first node called name (list.index), 0-based; -1 if none
RECURSIVE IndexOfName(_, _)
IndexOfName(seq, name) ==
    IF seq = << >> THEN -1
    ELSE IF Head(seq).node = name THEN 0
    ELSE LET r == IndexOfName(Tail(seq), name)
         IN  IF r < 0 THEN -1 ELSE r + 1

\* insert_sorted without the sort: the node stays where list.insert put it
insert_sorted_unsorted(fw, n) ==
    IF IndexOfName(fw.nodes, n.node) >= 0
    THEN [nodes |-> fw.nodes, index |-> IndexOfName(fw.nodes, n.node)]
    ELSE LET at == IF fw.pos > Len(fw.nodes) THEN Len(fw.nodes) ELSE fw.pos
         IN  [nodes |-> SubSeq(fw.nodes, 1, at) \o <<n>>
                        \o SubSeq(fw.nodes, at + 1, Len(fw.nodes)),
              index |-> at]

\* insert_sorted without the lookup of an existing name
insert_sorted_no_lookup(fw, n) ==
    LET put == <<n>> \o fw.nodes
        srt == SortedByName(SelectDirs(put)) \o SortedByName(SelectFiles(put))
    IN  [nodes |-> srt,
         index |-> (CHOOSE i \in 1..Len(srt) : srt[i] = n) - 1]

\* FolderWalker.insert_sorted(node): the new nodes and the returned index.
\* list.insert(self.pos, node) puts the node before index pos (at the end
\* if pos is past it); the stable sort then places it.
insert_sorted(fw, n) ==
    IF IndexOfName(fw.nodes, n.node) >= 0
    THEN [nodes |-> fw.nodes, index |-> IndexOfName(fw.nodes, n.node)]
    ELSE LET at == IF fw.pos > Len(fw.nodes) THEN Len(fw.nodes) ELSE fw.pos
             put == SubSeq(fw.nodes, 1, at) \o <<n>>
                    \o SubSeq(fw.nodes, at + 1, Len(fw.nodes))
             srt == SortedByName(SelectDirs(put)) \o SortedByName(SelectFiles(put))
         IN  [nodes |-> srt,
              index |-> (CHOOSE i \in 1..Len(srt) : srt[i] = n) - 1]

(***************************************************************************)
(* The store as os.walk sees it, and Pass.extract_all.                     *)
(* A tree maps each directory (a path) to its subdirectory names and to    *)
(* its files; a file is <<stem, ext>> with ext "gpg" for stem + '.gpg'.    *)
(***************************************************************************)
Dir(dirs, files) == [dirs |-> dirs, files |-> files]

Gpg(stem) == <<stem, "gpg">>
Other(stem) == <<stem, "other">>

\* an empty store
TreeEmpty == (<< >> :> Dir({}, {}))

\* '.gpg-id'
DotGpgId == <<46, 103, 112, 103, 45, 105, 100>>

\* a git-managed store: the root holds the directories b, c and .git and
\* the file .gpg-id; b holds a.gpg; c holds the empty directory d
TreeStore ==
    (<< >> :> Dir({NameB, NameC, DotGit}, {Other(DotGpgId)}))
    @@ (<<NameB>> :> Dir({}, {Gpg(NameA)}))
    @@ (<<NameC>> :> Dir({NameD}, {}))
    @@ (<<NameC, NameD>> :> Dir({}, {}))
    @@ (<<DotGit>> :> Dir({}, {Other(NameA)}))

Trees == {TreeEmpty, TreeStore}

\* a store pushed to a forge: the root holds the directories b and .github;
\* b holds a.gpg; .github holds a file
TreeGitHub ==
    (<< >> :> Dir({NameB, DotGitHub}, {Other(DotGpgId)}))
    @@ (<<NameB>> :> Dir({}, {Gpg(NameA)}))
    @@ (<<DotGitHub>> :> Dir({}, {Other(NameA)}))

\* a flat store of n leaves, named 'a', 'b', ...
TreeLeaves(n) == (<< >> :> Dir({}, {Gpg(<<96 + i>>) : i \in 1..n}))

\* the store of the round trip scenario: the root holds leaf a and the empty
\* directory b
TreeRoundTrip ==
    (<< >> :> Dir({NameB}, {Gpg(NameA)}))
    @@ (<<NameB>> :> Dir({}, {}))

\* root.startswith(os.path.join(PASS_DIR, '.git')): the walked directory is
\* PASS_DIR/seg1/seg2...; without '/' inside a segment the prefix test is on
\* the first segment
UnderDotGit(path) == Len(path) >= 1 /\ StartsWith(path[1], DotGit)

MaxDepthOf(tree) ==
    CHOOSE d \in 0..10 :
        /\ \E p \in DOMAIN tree : Len(p) = d
        /\ \A p \in DOMAIN tree : Len(p) <= d

\* a PassNode constructor raised KeyError while the list was built
Raised(fw) == \E i \in 1..Len(fw.nodes) : fw.nodes[i].count = KeyErrorCount

\* os.walk(topdown=False) visits the directories of depth d after all
\* deeper ones; directories of one depth do not read each other's entry.
\* A FolderWalker whose construction raises is never assigned, and the
\* exception ends the walk: no shallower directory gets an entry.
RECURSIVE walk(_, _, _)
walk(tree, depth, cache) ==
    LET here == {p \in DOMAIN tree : Len(p) = depth /\ ~UnderDotGit(p)}
        built == [p \in here |->
                    FolderWalker(p,
                        {d \in tree[p].dirs : d # DotGit},
                        {f[1] : f \in {g \in tree[p].files : g[2] = "gpg"}},
                        cache)]
        assigned == {p \in here : ~Raised(built[p])}
        next == [p \in DOMAIN cache \cup assigned |->
                    IF p \in assigned THEN built[p] ELSE cache[p]]
    IN  IF depth = 0 \/ assigned # here THEN next ELSE walk(tree, depth - 1, next)

\* Pass.extract_all
extract_all(tree) == walk(tree, MaxDepthOf(tree), << >>)

\* the walk ended with an exception: the root, which is visited last, has
\* no entry
BuildFailed(cache) == << >> \notin DOMAIN cache

(***************************************************************************)
(* Inputs.                                                                 *)
(***************************************************************************)
\* what the operator can have in the edit box, as a name or as a password:
\* '' (nothing typed) or c
Texts == {EmptyStr, NameC}

\* size[1], the rows of the list box
Heights == {WindowHeight}

\* res.stderr of a failed store call, as tokens; "\n" is a line break
StdErrs == { <<"Error: password store is empty. Try \"pass init\".", "\n">> }

NoStdErr == << >>

\* the answer of a handler that does not call the store
NoResult == [returncode |-> 0, stderr |-> NoStdErr]

\* the CompletedProcess a store call returns
Results ==
    {[returncode |-> 0, stderr |-> NoStdErr]}
    \cup {[returncode |-> 1, stderr |-> e] : e \in StdErrs}

\* the keys the operator presses: the default bindings and some unbound keys
Keys == {"esc", "q", "enter", "s", "i", "a", "e", "d", "z",
         "l", "h", "j", "k", "G", "g", "page down", "page up",
         "ctrl d", "ctrl u", "y", "Y", "n", "N", "x"}

\* the keys that make a handler call the store need its answer
AnswersFor(calling) == IF calling THEN Results ELSE {NoResult}

\* keys.get(key) with the default action_keys; "" is None (unbound)
keys(key) ==
    CASE key \in {"l", "right"} -> "dir_down"
      [] key \in {"h", "left"} -> "dir_up"
      [] key \in {"j", "down", "ctrl n"} -> "down"
      [] key \in {"k", "up", "ctrl p"} -> "up"
      [] key \in {"page down", "ctrl f"} -> "down_screen"
      [] key \in {"page up", "ctrl b"} -> "up_screen"
      [] key \in {"ctrl d"} -> "down_half_screen"
      [] key \in {"ctrl u"} -> "up_half_screen"
      [] key \in {"G", "end"} -> "end"
      [] key \in {"g", "home"} -> "home"
      [] key \in {"esc"} -> "cancel"
      [] key \in {"enter"} -> "confirm"
      [] key \in {"s"} -> "search"
      [] key \in {"i"} -> "insert"
      [] key \in {"a"} -> "generate"
      [] key \in {"e"} -> "edit"
      [] key \in {"d"} -> "delete"
      [] key \in {"c"} -> "copy"
      [] key \in {"z"} -> "toggle_preview"
      [] key \in {"q"} -> "quit"
      [] OTHER -> ""

(***************************************************************************)
(* The program state as one record, so that a handler is the composition   *)
(* of the calls it makes.                                                  *)
(***************************************************************************)
VARIABLES
    tree,            \* the store under PASS_DIR when the program started
    all_pass,        \* Pass.all_pass: path -> [nodes, pos]
    root,            \* PassList.root
    body,            \* PassList.body, the list walker's content
    focus_position,  \* PassList.focus_position
    offset_rows,     \* the list box's offset inset (get_focus_offset_inset)
    size,            \* size[1]: the rows of the list box
    edit_type,       \* UI._edit_type
    edit_text,       \* UI.editbox.edit_text
    insert_node,     \* UI._insert_node
    insert_pass,     \* UI._insert_pass
    messagebox,      \* UI.messagebox: [alert, text]
    calls,           \* the store calls made while handling the last event
    status,          \* "running", "exited" (ExitMainLoop) or "crashed"
    opened,          \* history: the number of modal sessions opened so far
    trail,           \* history: where each descent on the way to root left from
    session          \* history: what the running insert session has confirmed

vars == <<tree, all_pass, root, body, focus_position, offset_rows, size, edit_type,
          edit_text, insert_node, insert_pass, messagebox, calls, status,
          opened, trail, session>>

\* UI._edit_type is None
NoEdit == "None"

\* an attribute that was never assigned
Unset == << -2 >>

State ==
    [all_pass |-> all_pass, root |-> root, body |-> body,
     focus_position |-> focus_position, offset_rows |-> offset_rows,
     size |-> size, edit_type |-> edit_type, edit_text |-> edit_text,
     insert_node |-> insert_node, insert_pass |-> insert_pass,
     messagebox |-> messagebox, calls |-> calls, status |-> status]

\* an exception nobody catches leaves main.run(): the program is over
raise(u) == [u EXCEPT !.status = "crashed"]

\* PassList.focus
focus(u) == u.body[u.focus_position + 1]

\* self.body[:] = nodes.  The walker keeps its focus index and, when the
\* index is past the new end, moves it to the last item.
set_body(u, nodes) ==
    [u EXCEPT !.body = nodes,
              !.focus_position =
                  IF @ >= Len(nodes)
                  THEN (IF Len(nodes) = 0 THEN 0 ELSE Len(nodes) - 1)
                  ELSE @]

Min(a, b) == IF a < b THEN a ELSE b
Max(a, b) == IF a > b THEN a ELSE b

\* the row of the window on which the list box draws the focused item
\* (urwid's ListBox.calculate_visible, every item one row high): the
\* offset inset, less when fewer items precede the focus, more when the
\* items after the focus leave rows free and items before it can fill them
RenderedRow(u, h) ==
    LET above == Min(u.offset_rows, u.focus_position)
        free == h - 1 - above - (Len(u.body) - 1 - u.focus_position)
    IN  above + Min(Max(free, 0), u.focus_position - above)

\* self.focus_position = position / self.set_focus(position): IndexError
\* when there is no widget at position.  The list box completes the change
\* when it is drawn next, before the next event: nothing if the position
\* is the old one; the row the item is drawn on as the offset inset if the
\* item was visible; the middle row otherwise.
set_focus(u, position) ==
    IF position < 0 \/ position >= Len(u.body)
    THEN raise(u)
    ELSE IF position = u.focus_position
    THEN u
    ELSE LET row == RenderedRow(u, u.size) + (position - u.focus_position)
         IN  [u EXCEPT !.focus_position = position,
                       !.offset_rows = IF row \in 0..(u.size - 1)
                                       THEN row
                                       ELSE (u.size - 1) \div 2]

(***************************************************************************)
(* PassList.                                                               *)
(***************************************************************************)
\* dir_navigate without recording the position it leaves
dir_navigate_no_record(u, direction) ==
    LET newroot == IF direction = "down" /\ focus(u).isdir
                   THEN join(u.root, focus(u).node)
                   ELSE IF direction = "up"
                   THEN dirname(u.root)
                   ELSE u.root
        moved == [u EXCEPT !.root = newroot]
    IN  IF newroot \notin DOMAIN u.all_pass
        THEN raise(moved)
        ELSE set_focus(set_body(moved, u.all_pass[newroot].nodes),
                       u.all_pass[newroot].pos)

\* dir_navigate that descends into any focused node that has a name
dir_navigate_no_isdir_check(u, direction) ==
    LET recorded == [u.all_pass EXCEPT ![u.root].pos = u.focus_position]
        newroot == IF direction = "down" /\ focus(u).node # None
                   THEN join(u.root, focus(u).node)
                   ELSE IF direction = "up"
                   THEN dirname(u.root)
                   ELSE u.root
        moved == [u EXCEPT !.all_pass = recorded, !.root = newroot]
    IN  IF newroot \notin DOMAIN recorded
        THEN raise(moved)
        ELSE set_focus(set_body(moved, recorded[newroot].nodes),
                       recorded[newroot].pos)

\* dir_navigate that records the position under the root it moves to
dir_navigate_record_at_new_root(u, direction) ==
    LET newroot == IF direction = "down" /\ focus(u).isdir
                   THEN join(u.root, focus(u).node)
                   ELSE IF direction = "up"
                   THEN dirname(u.root)
                   ELSE u.root
        recorded == IF newroot \in DOMAIN u.all_pass
                    THEN [u.all_pass EXCEPT ![newroot].pos = u.focus_position]
                    ELSE u.all_pass
        moved == [u EXCEPT !.all_pass = recorded, !.root = newroot]
    IN  IF newroot \notin DOMAIN recorded
        THEN raise(moved)
        ELSE set_focus(set_body(moved, recorded[newroot].nodes),
                       recorded[newroot].pos)

\* PassList.dir_navigate(direction)
dir_navigate(u, direction) ==
    LET recorded == [u.all_pass EXCEPT ![u.root].pos = u.focus_position]
        newroot == IF direction = "down" /\ focus(u).isdir
                   THEN join(u.root, focus(u).node)
                   ELSE IF direction = "up"
                   THEN dirname(u.root)
                   ELSE u.root
        moved == [u EXCEPT !.all_pass = recorded, !.root = newroot]
    IN  IF newroot \notin DOMAIN recorded
        THEN raise(moved)
        ELSE set_focus(set_body(moved, recorded[newroot].nodes),
                       recorded[newroot].pos)

\* list_navigate without the border check
list_navigate_unchecked(u, h, shift, new_focus) ==
    LET target == IF new_focus = << >>
                  THEN u.focus_position + shift
                  ELSE new_focus[1]
        shift2 == IF new_focus = << >>
                  THEN shift
                  ELSE new_focus[1] - u.focus_position
    IN  [u EXCEPT !.focus_position = target,
                  !.offset_rows = u.offset_rows + shift2]

\* PassList.list_navigate(size, shift, new_focus); new_focus is << >> for
\* None and <<k>> for the position k.  change_focus stores the offset inset
\* and moves the focus.
list_navigate(u, h, shift, new_focus) ==
    LET offset == u.offset_rows
        target == IF new_focus = << >>
                  THEN u.focus_position + shift
                  ELSE new_focus[1]
        shift2 == IF new_focus = << >>
                  THEN shift
                  ELSE new_focus[1] - u.focus_position
        new_offset == offset + shift2
        focus2 == Min(Max(target, 0), Len(u.body) - 1)
        offset2 == Min(Max(new_offset, 0), h - 1)
    IN  [u EXCEPT !.focus_position = focus2, !.offset_rows = offset2]

\* PassList.insert without focusing the new node
PassList_insert_no_focus(u, node) ==
    LET passnode == PassNode(node, u.root, FALSE, u.all_pass)
        root_list == u.all_pass[u.root]
        popped == IF Len(root_list.nodes) = 1 /\ root_list.nodes[1].node = None
                  THEN [root_list EXCEPT !.nodes = << >>]
                  ELSE root_list
        ins == insert_sorted(popped, passnode)
        stored == [u EXCEPT !.all_pass[u.root].nodes = ins.nodes]
    IN  set_body(stored, ins.nodes)

\* PassList.insert(node)
PassList_insert(u, node) ==
    LET passnode == PassNode(node, u.root, FALSE, u.all_pass)
        root_list == u.all_pass[u.root]
        popped == IF Len(root_list.nodes) = 1 /\ root_list.nodes[1].node = None
                  THEN [root_list EXCEPT !.nodes = << >>]
                  ELSE root_list
        ins == insert_sorted(popped, passnode)
        stored == [u EXCEPT !.all_pass[u.root].nodes = ins.nodes]
    IN  set_focus(set_body(stored, ins.nodes), ins.index)

\* list.pop(pos), 0-based
Pop(seq, pos) == SubSeq(seq, 1, pos) \o SubSeq(seq, pos + 2, Len(seq))

\* PassList.delete without the empty node for a list that became empty
PassList_delete_no_empty_node(u, pos) ==
    LET popped == Pop(u.all_pass[u.root].nodes, pos)
        stored == [u EXCEPT !.all_pass[u.root].nodes = popped]
    IN  set_body(stored, popped)

\* PassList.delete that does not give the list walker the new list
PassList_delete_no_refresh(u, pos) ==
    LET popped == Pop(u.all_pass[u.root].nodes, pos)
        root_list == IF Len(popped) = 0 THEN <<EmptyNode>> ELSE popped
    IN  [u EXCEPT !.all_pass[u.root].nodes = root_list]

\* PassList.delete that pops the last node whatever pos is
PassList_delete_last(u, pos) ==
    LET popped == Pop(u.all_pass[u.root].nodes, Len(u.all_pass[u.root].nodes) - 1)
        root_list == IF Len(popped) = 0 THEN <<EmptyNode>> ELSE popped
        stored == [u EXCEPT !.all_pass[u.root].nodes = root_list]
    IN  set_body(stored, root_list)

\* PassList.delete(pos)
PassList_delete(u, pos) ==
    LET popped == Pop(u.all_pass[u.root].nodes, pos)
        root_list == IF Len(popped) = 0 THEN <<EmptyNode>> ELSE popped
        stored == [u EXCEPT !.all_pass[u.root].nodes = root_list]
    IN  set_body(stored, root_list)

\* list_navigation_offsets with end and home moving by one screen
list_navigation_offsets_end_is_screen(u, h, action) ==
    CASE action = "down" -> 1
      [] action = "up" -> -1
      [] action = "end" -> h
      [] action = "home" -> -h
      [] action = "down_screen" -> h
      [] action = "up_screen" -> -h
      [] action = "down_half_screen" -> h \div 2
      [] action = "up_half_screen" -> (-h) \div 2

\* the shift of each list navigation action, PassList.keypress
list_navigation_offsets(u, h, action) ==
    CASE action = "down" -> 1
      [] action = "up" -> -1
      [] action = "end" -> Len(u.body)
      [] action = "home" -> -Len(u.body)
      [] action = "down_screen" -> h
      [] action = "up_screen" -> -h
      [] action = "down_half_screen" -> h \div 2
      [] action = "up_half_screen" -> (-h) \div 2

ListActions == {"down", "up", "end", "home", "down_screen", "up_screen",
                "down_half_screen", "up_half_screen"}

\* the direction of each directory navigation action, PassList.keypress
dir_navigation_directions(action) ==
    CASE action = "confirm" -> "down"
      [] action = "dir_down" -> "down"
      [] action = "dir_up" -> "up"

DirActions == {"confirm", "dir_down", "dir_up"}

\* PassList.keypress(size, key); any other key is the list box's own and
\* changes nothing here
PassList_keypress(u, h, key) ==
    LET action == keys(key)
    IN  IF action \in ListActions
        THEN list_navigate(u, h, list_navigation_offsets(u, h, action), << >>)
        ELSE IF action \in DirActions
        THEN dir_navigate(u, dir_navigation_directions(action))
        ELSE u

\* PassList.mouse_event(size, event, button, col, row, focus)
PassList_mouse_event(u, h, button, row) ==
    LET focus_offset == u.offset_rows
    IN  IF button = 1
        THEN IF h > Len(u.body)
             THEN IF row = u.focus_position
                  THEN dir_navigate(u, "down")
                  ELSE list_navigate(u, h, 0, <<row>>)
             ELSE IF row = focus_offset
                  THEN dir_navigate(u, "down")
                  ELSE list_navigate(u, h, 0,
                           <<u.focus_position - focus_offset + row>>)
        ELSE IF button = 3 THEN dir_navigate(u, "up")
        ELSE IF button = 4 THEN list_navigate(u, h, -1, << >>)
        ELSE IF button = 5 THEN list_navigate(u, h, 1, << >>)
        ELSE u

(***************************************************************************)
(* UI.                                                                     *)
(***************************************************************************)
\* message.replace('\n', ' ')
replace_newlines(text) ==
    [i \in 1..Len(text) |-> IF text[i] = "\n" THEN " " ELSE text[i]]

\* UI.message(message, alert)
message(u, text, alert) ==
    [u EXCEPT !.messagebox = [alert |-> alert, text |-> replace_newlines(text)]]

\* self.messagebox.set_text('')
NoMessage == [alert |-> FALSE, text |-> << >>]

\* unfocus_edit that leaves the mode as it is
unfocus_edit_keeps_mode(u) == [u EXCEPT !.messagebox = NoMessage]

\* UI.unfocus_edit()
unfocus_edit(u) ==
    [u EXCEPT !.edit_type = NoEdit, !.messagebox = NoMessage]

\* UI.focus_edit(edit_type, cap, mask)
focus_edit(u, type) ==
    [u EXCEPT !.edit_type = type, !.edit_text = EmptyStr]

\* one call of Pass.edit / insert / generate / delete and what it returned
StoreCall(func, path, args, res) ==
    [func |-> func, path |-> path, args |-> args,
     returncode |-> res.returncode, stderr |-> res.stderr]

\* the text of the status line after a successful call; the formatted root
\* and node are left out
SuccessText(func) ==
    CASE func = "insert" -> <<"Insert:  {root}/{node}">>
      [] func = "generate" -> <<"Generate:  {root}/{node}">>
      [] func = "edit" -> <<"Edit: {root}/{node}">>
      [] func = "delete" -> <<"Deleting {}">>

\* run_pass that patches the cache whatever the store answered
run_pass_ignoring_returncode(u, func, node, path, args, res) ==
    IF node = None
    THEN raise(u)
    ELSE LET called == [u EXCEPT !.calls =
                            Append(@, StoreCall(func, join(path, node), args, res))]
         IN  PassList_insert(message(called,
                 IF res.returncode = 0 THEN SuccessText(func) ELSE res.stderr,
                 res.returncode # 0), node)

\* UI.run_pass(func, node, root, msg, args) when the store answers res.
\* os.path.join(root, None) raises TypeError.
run_pass(u, func, node, path, args, res) ==
    IF node = None
    THEN raise(u)
    ELSE LET called == [u EXCEPT !.calls =
                            Append(@, StoreCall(func, join(path, node), args, res))]
         IN  IF res.returncode = 0
             THEN PassList_insert(message(called, SuccessText(func), FALSE), node)
             ELSE message(called, res.stderr, TRUE)

\* delete_confirm that patches the cache whatever the store answered
delete_confirm_ignoring_returncode(u, key, res) ==
    IF key \in {"y", "Y", "enter"}
    THEN IF focus(u).node = None
         THEN raise(u)
         ELSE LET called == [u EXCEPT !.calls =
                                 Append(@, StoreCall("delete",
                                     join(u.root, focus(u).node), << >>, res))]
              IN  PassList_delete(message(called,
                      IF res.returncode = 0 THEN SuccessText("delete") ELSE res.stderr,
                      res.returncode # 0), called.focus_position)
    ELSE IF key \in {"n", "N"}
    THEN message(u, <<"Abort.">>, FALSE)
    ELSE message(u, <<"Invalid option.">>, TRUE)

\* UI.delete_confirm(key) when the store answers res
delete_confirm(u, key, res) ==
    IF key \in {"y", "Y", "enter"}
    THEN IF focus(u).node = None
         THEN raise(u)
         ELSE LET called == [u EXCEPT !.calls =
                                 Append(@, StoreCall("delete",
                                     join(u.root, focus(u).node), << >>, res))]
              IN  IF res.returncode = 0
                  THEN PassList_delete(message(called, SuccessText("delete"), FALSE),
                                       called.focus_position)
                  ELSE message(called, res.stderr, TRUE)
    ELSE IF key \in {"n", "N"}
    THEN message(u, <<"Abort.">>, FALSE)
    ELSE message(u, <<"Invalid option.">>, TRUE)

\* handle_input that does not compare the two passwords
handle_input_no_compare(u, res) ==
    CASE u.edit_type = "search" -> unfocus_edit(u)
      [] u.edit_type = "generate" ->
            LET ran == run_pass(u, "generate", u.edit_text, u.root, << >>, res)
            IN  IF ran.status = "crashed" THEN ran ELSE unfocus_edit(ran)
      [] u.edit_type = "insert" ->
            focus_edit([u EXCEPT !.insert_node = u.edit_text], "insert_password")
      [] u.edit_type = "insert_password" ->
            focus_edit([u EXCEPT !.insert_pass = u.edit_text],
                       "insert_password_confirm")
      [] u.edit_type = "insert_password_confirm" ->
            run_pass(unfocus_edit(u), "insert", u.insert_node, u.root,
                     <<u.insert_pass>>, res)
      [] OTHER -> u

\* UI.handle_input() when the store answers res
handle_input(u, res) ==
    CASE u.edit_type = "search" -> unfocus_edit(u)
      [] u.edit_type = "generate" ->
            LET ran == run_pass(u, "generate", u.edit_text, u.root, << >>, res)
            IN  IF ran.status = "crashed" THEN ran ELSE unfocus_edit(ran)
      [] u.edit_type = "insert" ->
            focus_edit([u EXCEPT !.insert_node = u.edit_text], "insert_password")
      [] u.edit_type = "insert_password" ->
            focus_edit([u EXCEPT !.insert_pass = u.edit_text],
                       "insert_password_confirm")
      [] u.edit_type = "insert_password_confirm" ->
            LET unfocused == unfocus_edit(u)
                insert_pass_again == unfocused.edit_text
            IN  IF unfocused.insert_pass = insert_pass_again
                THEN run_pass(unfocused, "insert", unfocused.insert_node,
                              unfocused.root, <<unfocused.insert_pass>>, res)
                ELSE message(unfocused, <<"Password is not the same">>, TRUE)
      [] OTHER -> u

\* the branch of the if/elif chain of UI.keypress that key takes
branch(u, key) ==
    LET action == keys(key)
    IN  IF action = "cancel" THEN "cancel"
        ELSE IF action = "quit" /\ u.edit_type = NoEdit THEN "quit"
        ELSE IF u.edit_type = "delete" THEN "delete_confirm"
        ELSE IF action = "confirm" /\ u.edit_type # NoEdit THEN "handle_input"
        ELSE IF u.edit_type # NoEdit THEN "editbox"
        ELSE IF action = "search" THEN "search"
        ELSE IF action = "insert" THEN "insert"
        ELSE IF action = "generate" THEN "generate"
        ELSE IF action = "edit" /\ ~focus(u).isdir THEN "edit"
        ELSE IF action = "delete" THEN "delete"
        ELSE IF action = "toggle_preview" THEN "toggle_preview"
        ELSE "listbox"

\* UI.keypress(size, key).  res is what the store answers if it is called;
\* typed is the text of the edit box after it has handled the key.
UI_keypress(u, h, key, res, typed) ==
    LET b == branch(u, key)
    IN  CASE b = "cancel" -> unfocus_edit(u)
          [] b = "quit" -> [u EXCEPT !.status = "exited"]
          [] b = "delete_confirm" -> delete_confirm(unfocus_edit(u), key, res)
          [] b = "handle_input" -> handle_input(u, res)
          [] b = "editbox" -> [u EXCEPT !.edit_text = typed]
          [] b = "search" -> focus_edit(u, "search")
          [] b = "insert" -> focus_edit(u, "insert")
          [] b = "generate" -> focus_edit(u, "generate")
          [] b = "edit" -> run_pass(u, "edit", focus(u).node, u.root, << >>, res)
          [] b = "delete" -> focus_edit(u, "delete")
          [] b = "toggle_preview" -> u
          [] b = "listbox" -> PassList_keypress(u, h, key)

(***************************************************************************)
(* The program: construction, then one event at a time.                    *)
(***************************************************************************)
\* Pass.extract_all(); UI(): the list box shows Pass.all_pass[''] with the
\* focus on its first item; no session, no message
Start(trees, heights) ==
    /\ tree \in trees
    /\ all_pass = extract_all(tree)
    /\ size \in heights
    /\ root = << >>
    /\ body = IF BuildFailed(all_pass) THEN << >> ELSE all_pass[<< >>].nodes
    /\ focus_position = 0
    /\ offset_rows = 0
    /\ edit_type = NoEdit
    /\ edit_text = EmptyStr
    /\ insert_node = Unset
    /\ insert_pass = Unset
    /\ messagebox = NoMessage
    /\ calls = << >>
    /\ status = IF BuildFailed(all_pass) THEN "crashed" ELSE "running"
    /\ opened = 0
    /\ trail = << >>
    /\ session = << >>

Init == Start(Trees, Heights)

\* the state when an event arrives: no store call made yet for it
Before == [State EXCEPT !.calls = << >>]

\* history of the descents: a descent records the path and focus it left,
\* the ascent that undoes it drops the record
TrailAfter(u2) ==
    IF Len(u2.root) > Len(root)
    THEN Append(trail, [path |-> root, focus |-> focus_position])
    ELSE IF Len(u2.root) < Len(root)
    THEN SubSeq(trail, 1, Len(trail) - 1)
    ELSE trail

InsertModes == {"insert", "insert_password", "insert_password_confirm"}

\* history of the insert session: the mode and text of each confirm so far
SessionAfter(u2) ==
    IF u2.edit_type \notin InsertModes \/ u2.edit_type = "insert"
    THEN << >>
    ELSE IF u2.edit_type # edit_type
    THEN Append(session, [mode |-> edit_type, text |-> edit_text])
    ELSE session

\* the handler has returned (or raised): u2 is the new state
Becomes(u2) ==
    \E v \in {u2} :
        /\ tree' = tree
        /\ all_pass' = v.all_pass
        /\ root' = v.root
        /\ body' = v.body
        /\ focus_position' = v.focus_position
        /\ offset_rows' = v.offset_rows
        /\ size' = size
        /\ edit_type' = v.edit_type
        /\ edit_text' = v.edit_text
        /\ insert_node' = v.insert_node
        /\ insert_pass' = v.insert_pass
        /\ messagebox' = v.messagebox
        /\ calls' = v.calls
        /\ status' = v.status
        /\ opened' = IF edit_type = NoEdit /\ v.edit_type # NoEdit
                      THEN opened + 1
                      ELSE opened
        /\ trail' = TrailAfter(v)
        /\ session' = SessionAfter(v)

\* the branches of UI.keypress that open a modal session (focus_edit)
Opening == {"search", "insert", "generate", "delete"}

\* the sessions the operator opens at most: the round trip scenario takes
\* one insert and three deletes
SessionLimit == IF tree = TreeRoundTrip THEN RoundTripSessions ELSE MaxSessions

\* a key reaches UI.keypress and takes branch b of it
Key(b, key, res, typed) ==
    /\ status = "running"
    /\ b \in Opening => opened < SessionLimit
    /\ \E u \in {Before} :
          /\ branch(u, key) = b
          /\ Becomes(UI_keypress(u, size, key, res, typed))

\* the keys bound to an action
KeysOf(action) == {k \in Keys : keys(k) = action}

CancelKeys == KeysOf("cancel")
QuitKeys == KeysOf("quit")
ConfirmKeys == KeysOf("confirm")
SearchKeys == KeysOf("search")
InsertKeys == KeysOf("insert")
GenerateKeys == KeysOf("generate")
EditKeys == KeysOf("edit")
DeleteKeys == KeysOf("delete")
TogglePreviewKeys == KeysOf("toggle_preview")
NavigationKeys == {k \in Keys : keys(k) \in ListActions \cup DirActions}

\* action == 'cancel'
Cancel == \E key \in CancelKeys : Key("cancel", key, NoResult, edit_text)

\* action == 'quit' and self._edit_type is None
Quit == \E key \in QuitKeys : Key("quit", key, NoResult, edit_text)

\* self._edit_type == "delete": any key answers the question
DeleteConfirmWith(key) ==
    \E res \in AnswersFor(key \in {"y", "Y", "enter"}) :
        Key("delete_confirm", key, res, edit_text)

DeleteConfirm == \E key \in Keys : DeleteConfirmWith(key)

\* action == 'confirm' and self._edit_type is not None
HandleInput ==
    \E key \in ConfirmKeys :
        \E res \in AnswersFor(edit_type \in {"generate", "insert_password_confirm"}) :
            Key("handle_input", key, res, edit_text)

\* self._edit_type is not None: the key goes to the edit box, which ends
\* up holding typed.  The keys of this branch all act through typed alone:
\* one of them stands for all.
EditBox ==
    LET ks == {k \in Keys : branch(Before, k) = "editbox"}
    IN  /\ status = "running"
        /\ ks # {}
        /\ \E typed \in Texts :
               Key("editbox", CHOOSE k \in ks : TRUE, NoResult, typed)

\* action == 'search'
Search == \E key \in SearchKeys : Key("search", key, NoResult, edit_text)

\* action == 'insert'
Insert == \E key \in InsertKeys : Key("insert", key, NoResult, edit_text)

\* action == 'generate'
Generate == \E key \in GenerateKeys : Key("generate", key, NoResult, edit_text)

\* action == 'edit' and not self.listbox.focus.isdir
Edit == \E key \in EditKeys, res \in Results : Key("edit", key, res, edit_text)

\* action == 'delete'
Delete == \E key \in DeleteKeys : Key("delete", key, NoResult, edit_text)

\* action == 'toggle_preview'
TogglePreview ==
    \E key \in TogglePreviewKeys : Key("toggle_preview", key, NoResult, edit_text)

\* any other key goes to PassList.keypress.  The keys it does not handle
\* all leave the list as it is: one of them stands for all.
ListBoxKey ==
    \/ \E key \in NavigationKeys : Key("listbox", key, NoResult, edit_text)
    \/ LET ks == {k \in Keys \ NavigationKeys : branch(Before, k) = "listbox"}
       IN  /\ status = "running"
           /\ ks # {}
           /\ Key("listbox", CHOOSE k \in ks : TRUE, NoResult, edit_text)

\* the mouse buttons: left, middle, right, wheel up, wheel down; only the
\* left button reads the row
Buttons == {1, 2, 3, 4, 5}

\* a mouse event on a row of the list box reaches PassList.mouse_event,
\* whatever the modal session is
MouseWith(button, row) ==
    /\ status = "running"
    /\ Becomes(PassList_mouse_event(Before, size, button, row))

Mouse ==
    \E button \in Buttons :
        \E row \in (IF button = 1 THEN 0..(size - 1) ELSE {0}) :
            MouseWith(button, row)

Next ==
    \/ Cancel
    \/ Quit
    \/ DeleteConfirm
    \/ HandleInput
    \/ EditBox
    \/ Search
    \/ Insert
    \/ Generate
    \/ Edit
    \/ Delete
    \/ TogglePreview
    \/ ListBoxKey
    \/ Mouse

Spec == Init /\ [][Next]_vars

\* the program started on a store that holds a directory .github
InitBuild == Start(Trees \cup {TreeGitHub}, Heights)

SpecBuild == InitBuild /\ [][Next]_vars

\* the round trip scenario: the operator inserts, deletes and moves in
\* the list, types c wherever a text is asked, and the store does what it
\* is asked
InitRoundTrip == Start({TreeRoundTrip}, Heights)

StoreDid == calls' = << >> \/ calls'[1].returncode = 0

NextRoundTrip ==
    \/ Insert
    \/ EditBox /\ edit_text' = NameC
    \/ HandleInput /\ edit_text = NameC /\ StoreDid
    \/ Delete
    \/ DeleteConfirm /\ StoreDid
    \/ ListBoxKey

SpecRoundTrip == InitRoundTrip /\ [][NextRoundTrip]_vars

\* the navigation runs: the operator moves in a flat list with the keys and
\* the mouse
InitNav == Start({TreeLeaves(n) : n \in 1..MaxLeaves}, 1..MaxHeight)

NextNav ==
    \/ ListBoxKey
    \/ Mouse

SpecNav == InitNav /\ [][NextNav]_vars

(***************************************************************************)
(* Properties.                                                             *)
(***************************************************************************)
\* the nodes cached for every path are the same after the step as before
CacheUnchanged ==
    /\ DOMAIN all_pass' = DOMAIN all_pass
    /\ \A p \in DOMAIN all_pass : all_pass'[p].nodes = all_pass[p].nodes

\* the step called the store, and the store reported success / failure
Succeeded(funcs) ==
    calls' # << >> /\ calls'[1].func \in funcs /\ calls'[1].returncode = 0

Failed(funcs) ==
    calls' # << >> /\ calls'[1].func \in funcs /\ calls'[1].returncode # 0

\* the name a store call was made for: the last segment of its path
CalledName(call) == call.path[Len(call.path)]

\* C1: in every reachable state every cached collection has its directory
\* nodes before its leaf nodes, and the names of each group ascend.
SortInvariant ==
    \A p \in DOMAIN all_pass :
        LET ns == all_pass[p].nodes
        IN  \A i, j \in 1..Len(ns) :
                i < j =>
                    /\ ns[j].isdir => ns[i].isdir
                    /\ ns[i].isdir = ns[j].isdir => ~StrLess(ns[j].node, ns[i].node)

\* C1 witness: leaf c was inserted into directory c, which holds directory
\* d: the collection is [d (dir), c (leaf)] although 'c' < 'd'.
SortWitness ==
    /\ <<NameC>> \in DOMAIN all_pass
    /\ Len(all_pass[<<NameC>>].nodes) = 2
    /\ all_pass[<<NameC>>].nodes[1] = PassNode(NameD, <<NameC>>, TRUE, all_pass)
    /\ all_pass[<<NameC>>].nodes[2].node = NameC
    /\ ~all_pass[<<NameC>>].nodes[2].isdir

\* C2: in every reachable state every cached collection has at least one
\* node, and holds the empty node exactly when it holds no named node, the
\* empty node then being its only element.
NonEmptyInvariant ==
    \A p \in DOMAIN all_pass :
        LET ns == all_pass[p].nodes
            hasEmpty == \E i \in 1..Len(ns) : ns[i].node = None
            hasNamed == \E i \in 1..Len(ns) : ns[i].node # None
        IN  /\ Len(ns) >= 1
            /\ hasEmpty <=> ~hasNamed
            /\ hasEmpty => Len(ns) = 1

\* C2 witness: the only entry of directory b was deleted and b holds the
\* empty node.
NonEmptyWitness ==
    /\ calls # << >>
    /\ calls[1].func = "delete"
    /\ calls[1].returncode = 0
    /\ root = <<NameB>>
    /\ all_pass[<<NameB>>].nodes = <<EmptyNode>>
    /\ body = <<EmptyNode>>

\* C3: a successful insert, generate or edit of a name that the current
\* collection already holds leaves the collection as it was and puts the
\* focus on a node of that name.
IdempotentInsert ==
    [][(/\ Succeeded({"insert", "generate", "edit"})
        /\ \E i \in 1..Len(all_pass[root].nodes) :
              all_pass[root].nodes[i].node = CalledName(calls'[1]))
       => (/\ all_pass'[root].nodes = all_pass[root].nodes
           /\ body' = all_pass[root].nodes
           /\ body'[focus_position' + 1].node = CalledName(calls'[1]))]_vars

\* C3 witness: c was generated or inserted at the root, where c is a
\* directory: the root still holds its two directories, the focus is on c.
IdempotentWitness ==
    /\ calls # << >>
    /\ calls[1].func \in {"insert", "generate"}
    /\ calls[1].returncode = 0
    /\ calls[1].path = <<NameC>>
    /\ Len(all_pass[<< >>].nodes) = 2
    /\ focus_position = 1

\* C4: an ascent arrives at the path the matching descent left, with the
\* focus at the index it left.
CursorPersistence ==
    [][Len(root') < Len(root)
       => (/\ status' = "running"
           /\ trail # << >>
           /\ root' = trail[Len(trail)].path
           /\ focus_position' = trail[Len(trail)].focus)]_vars

\* C4 witness: back at the root with the focus on c (index 1), after a
\* leaf was inserted two levels below, in c/d.
CursorWitness ==
    /\ root = << >>
    /\ focus_position = 1
    /\ trail = << >>
    /\ <<NameC, NameD>> \in DOMAIN all_pass
    /\ all_pass[<<NameC, NameD>>].nodes # <<EmptyNode>>
    /\ all_pass[<< >>].pos = 1

\* C5: the focus position is an index of the displayed collection and the
\* offset inset is a row of the window, in every reachable state.
ViewportClamping ==
    /\ focus_position \in 0..(Len(body) - 1)
    /\ offset_rows \in 0..(size - 1)

\* C5 witness: in a one-item collection a move down left the focus on the
\* only item and moved the offset to the last row.
ViewportWitness ==
    /\ Len(body) = 1
    /\ focus_position = 0
    /\ offset_rows = size - 1
    /\ offset_rows > 0

\* the confirm key in mode insert_password_confirm
ThirdConfirm == edit_type = "insert_password_confirm" /\ HandleInput

\* C6: an insert session passes through the modes insert, insert_password,
\* insert_password_confirm in this order and calls the store in none of
\* them; the third confirm ends the session and calls the store once, for
\* the confirmed name at the current path with the confirmed password,
\* when the two passwords agree, and otherwise alerts without a call.
InsertSequencing ==
    [][/\ edit_type' \in InsertModes => calls' = << >>
       /\ edit_type' = "insert" => session' = << >>
       /\ edit_type' = "insert_password"
            => Len(session') = 1 /\ session'[1].mode = "insert"
       /\ edit_type' = "insert_password_confirm"
            => /\ Len(session') = 2
               /\ session'[1].mode = "insert"
               /\ session'[2].mode = "insert_password"
       /\ ThirdConfirm
            => /\ edit_type' = NoEdit
               /\ edit_text = session[2].text
                    => /\ Len(calls') = 1
                       /\ calls'[1].func = "insert"
                       /\ calls'[1].path = join(root, session[1].text)
                       /\ calls'[1].args = <<session[2].text>>
               /\ edit_text # session[2].text
                    => /\ calls' = << >>
                       /\ messagebox'.alert
                       /\ messagebox'.text # << >>
                       /\ CacheUnchanged]_vars

\* C6 witness: the store was called to insert c in directory b with the
\* password c.
InsertWitness ==
    /\ calls # << >>
    /\ calls[1].func = "insert"
    /\ calls[1].path = <<NameB, NameC>>
    /\ calls[1].args = <<NameC>>
    /\ edit_type = NoEdit

\* C7: a store call that reports failure leaves every cached collection,
\* the current path and the focus position as they were.
FailureLeavesState ==
    [][Failed({"insert", "generate", "edit", "delete"})
       => (/\ CacheUnchanged
           /\ root' = root
           /\ body' = body
           /\ focus_position' = focus_position)]_vars

\* C7 witness: a delete that the store refused.
FailureWitness ==
    /\ calls # << >>
    /\ calls[1].func = "delete"
    /\ calls[1].returncode # 0
    /\ calls[1].path = <<NameB, NameA>>

\* C8: after an event whose store call reported failure, the message box
\* shows the reported error text (on one line), in alert style.
ErrorSurfaced ==
    (calls # << >> /\ calls[1].returncode # 0)
        => messagebox = [alert |-> TRUE,
                         text |-> replace_newlines(calls[1].stderr)]

\* C9: after a successful insert or generate of a name, the collection of
\* the current path holds a node of that name, the list shows that
\* collection, and the focus is on a node of that name.
InsertFocus ==
    (/\ calls # << >>
     /\ calls[1].func \in {"insert", "generate"}
     /\ calls[1].returncode = 0)
        => /\ status = "running"
           /\ calls[1].path = join(root, CalledName(calls[1]))
           /\ \E i \in 1..Len(all_pass[root].nodes) :
                 all_pass[root].nodes[i].node = CalledName(calls[1])
           /\ body = all_pass[root].nodes
           /\ focus_position \in 0..(Len(body) - 1)
           /\ body[focus_position + 1].node = CalledName(calls[1])

\* C9 witness: c was generated in directory b, next to leaf a: the focus
\* is on the new node, after a.
InsertFocusWitness ==
    /\ calls # << >>
    /\ calls[1].func = "generate"
    /\ calls[1].returncode = 0
    /\ calls[1].path = <<NameB, NameC>>
    /\ focus_position = 1
    /\ Len(body) = 2

\* C10: a step that calls the store's edit leaves every cached collection
\* as it was, whatever the store reports.
EditLeavesCache ==
    [][(calls' # << >> /\ calls'[1].func = "edit") => CacheUnchanged]_vars

\* C10 witness: leaf a of directory b was edited and the store reported
\* success.
EditWitness ==
    /\ calls # << >>
    /\ calls[1].func = "edit"
    /\ calls[1].returncode = 0
    /\ calls[1].path = <<NameB, NameA>>
    /\ all_pass[<<NameB>>].nodes = <<PassNode(NameA, <<NameB>>, FALSE, all_pass)>>

\* C11: the cancel key, in any mode, sets the mode to none, calls the
\* store not at all and leaves the cache (collections and recorded
\* positions), the current path, the displayed collection and the focus
\* position as they were.
CancelLeavesState ==
    [][Cancel
       => (/\ edit_type' = NoEdit
           /\ calls' = << >>
           /\ all_pass' = all_pass
           /\ root' = root
           /\ body' = body
           /\ focus_position' = focus_position
           /\ status' = "running")]_vars

\* C11 witness: an insert session in directory b that got as far as the
\* second password was left without a message and without a change of b.
CancelWitness ==
    /\ edit_type = NoEdit
    /\ opened = 1
    /\ insert_node = NameC
    /\ insert_pass = NameC
    /\ edit_text = NameC
    /\ messagebox = NoMessage
    /\ calls = << >>
    /\ root = <<NameB>>
    /\ Len(all_pass[<<NameB>>].nodes) = 1

\* what a delete session must do with the key that answers it
DeleteAnswered(key) ==
    /\ edit_type' = NoEdit
    /\ key \in {"y", "Y", "enter"}
         => /\ Len(calls') = 1
            /\ calls'[1].func = "delete"
            /\ calls'[1].path = join(root, body[focus_position + 1].node)
            /\ calls'[1].returncode = 0
                 => all_pass'[root].nodes =
                        IF Len(all_pass[root].nodes) = 1
                        THEN <<EmptyNode>>
                        ELSE Pop(all_pass[root].nodes, focus_position)
    /\ key \notin {"y", "Y", "enter"} => calls' = << >>
    /\ key \in {"n", "N"}
         => /\ ~messagebox'.alert
            /\ messagebox'.text = <<"Abort.">>
            /\ CacheUnchanged
    /\ key \notin {"y", "Y", "enter", "n", "N"}
         => /\ messagebox'.alert
            /\ messagebox'.text = <<"Invalid option.">>
            /\ CacheUnchanged

\* C12: in mode delete any key but cancel ends the session in mode none;
\* y, Y and enter call the store's delete exactly once, for the focused
\* node, and on success the node leaves the collection at its index; any
\* other key calls nothing: n and N show a plain abort message, the rest an
\* alert, and the cache stays as it was.
DeleteConfirmation ==
    [][\A key \in Keys : DeleteConfirmWith(key) => DeleteAnswered(key)]_vars

\* the events that ask the list to descend: the keys bound to dir_down and
\* confirm, and a left click on the row the list takes for the focused one
DescendRequest ==
    \/ /\ edit_type = NoEdit
       /\ \E key \in {"l", "enter"} : Key("listbox", key, NoResult, edit_text)
    \/ LET row == IF size > Len(body) THEN focus_position ELSE offset_rows
       IN  row \in 0..(size - 1) /\ MouseWith(1, row)

\* the events that ask the list to ascend: the keys bound to dir_up and the
\* right mouse button
AscendRequest ==
    \/ edit_type = NoEdit /\ Key("listbox", "h", NoResult, edit_text)
    \/ MouseWith(3, 0)

\* C13: a descent asked while the focused node is a leaf or the empty
\* node, and an ascent asked at the root, leave the current path, the
\* displayed collection, the focus position and every cached collection as
\* they were.
StructuralNoOps ==
    [][(\/ ~body[focus_position + 1].isdir /\ DescendRequest
        \/ root = << >> /\ AscendRequest)
       => (/\ root' = root
           /\ body' = body
           /\ focus_position' = focus_position
           /\ CacheUnchanged
           /\ status' = "running")]_vars

\* C13 witness: in directory b, which holds no directory, the position
\* recorded for b is that of leaf c: a descent was asked on c.
NoOpWitness ==
    /\ root = <<NameB>>
    /\ Len(body) = 2
    /\ body[2].node = NameC
    /\ focus_position = 1
    /\ all_pass[<<NameB>>].pos = 1
    /\ trail = <<[path |-> << >>, focus |-> 0]>>
    /\ edit_type = NoEdit

\* the nodes of the round trip scenario, all at the root
DirB == [node |-> NameB, isdir |-> TRUE, count |-> 1]
LeafA == [node |-> NameA, isdir |-> FALSE, count |-> NoCount]
LeafC == [node |-> NameC, isdir |-> FALSE, count |-> NoCount]

\* the step is a successful call of func for name at the root
DoneAtRoot(func, name) ==
    /\ root = << >>
    /\ Succeeded({func})
    /\ calls'[1].path = <<name>>

\* C14: the root built from leaf a and directory b is [b, a]; from there a
\* successful insert of c gives [b, a, c], then a successful delete of b
\* gives [a, c], then successful deletes of a and of c, in either order,
\* give the single empty node.
RoundTrip ==
    [][LET nodes == all_pass[<< >>].nodes
           nodes2 == all_pass'[<< >>].nodes
       IN  /\ opened = 0 => nodes = <<DirB, LeafA>>
           /\ (nodes = <<DirB, LeafA>> /\ DoneAtRoot("insert", NameC))
                => nodes2 = <<DirB, LeafA, LeafC>>
           /\ (nodes = <<DirB, LeafA, LeafC>> /\ DoneAtRoot("delete", NameB))
                => nodes2 = <<LeafA, LeafC>>
           /\ (nodes = <<LeafA, LeafC>> /\ DoneAtRoot("delete", NameA))
                => nodes2 = <<LeafC>>
           /\ (nodes = <<LeafA, LeafC>> /\ DoneAtRoot("delete", NameC))
                => nodes2 = <<LeafA>>
           /\ (nodes = <<LeafC>> /\ DoneAtRoot("delete", NameC))
                => nodes2 = <<EmptyNode>>
           /\ (nodes = <<LeafA>> /\ DoneAtRoot("delete", NameA))
                => nodes2 = <<EmptyNode>>]_vars

\* C14 witness: the fourth session deleted c, which only the insert can
\* have put there, and left the root with the single empty node.
RoundTripWitness ==
    /\ tree = TreeRoundTrip
    /\ opened = 4
    /\ calls # << >>
    /\ calls[1].func = "delete"
    /\ calls[1].returncode = 0
    /\ calls[1].path = <<NameC>>
    /\ root = << >>
    /\ all_pass[<< >>].nodes = <<EmptyNode>>
    /\ body = <<EmptyNode>>

\* C15: in every reachable state the count of every directory node is the
\* number of nodes of the collection cached for that directory's path.
ChildCount ==
    \A p \in DOMAIN all_pass :
        \A i \in 1..Len(all_pass[p].nodes) :
            LET n == all_pass[p].nodes[i]
            IN  n.isdir
                  => /\ join(p, n.node) \in DOMAIN all_pass
                     /\ n.count = Len(all_pass[join(p, n.node)].nodes)

\* the reserved metadata directory of the store, or a directory below it
InDotGit(path) == Len(path) >= 1 /\ path[1] = DotGit

\* C16: after the build and after any operations, every directory of the
\* store but the metadata directory (and what is below it) has a cache
\* entry, the metadata directory has none, and every directory node of a
\* cached collection has the entry a descent into it reads.
CacheCoverage ==
    /\ \A p \in DOMAIN tree : p \in DOMAIN all_pass <=> ~InDotGit(p)
    /\ \A p \in DOMAIN all_pass :
          \A i \in 1..Len(all_pass[p].nodes) :
              LET n == all_pass[p].nodes[i]
              IN  /\ n.isdir => join(p, n.node) \in DOMAIN all_pass
                  /\ n.node # DotGit

\* C17: a step that changes a cached collection handles an insert, a
\* generate or a delete that the store has just reported as done; no other
\* step (navigation, cancel, mismatch, invalid answer, search, edit, a
\* failed call) changes one.
CacheOnlyAfterSuccess ==
    [][~CacheUnchanged
       => (/\ Succeeded({"insert", "generate", "delete"})
           /\ Len(calls') = 1
           /\ DeleteConfirm \/ HandleInput)]_vars

\* C17 witness: a successful generate of c in the empty directory c/d put
\* the leaf in the place of the empty node.
CacheChangeWitness ==
    /\ calls # << >>
    /\ calls[1].func = "generate"
    /\ calls[1].returncode = 0
    /\ calls[1].path = <<NameC, NameD, NameC>>
    /\ all_pass[<<NameC, NameD>>].nodes =
           <<[node |-> NameC, isdir |-> FALSE, count |-> NoCount]>>

\* C18: in every reachable state the current path has a cache entry and
\* the displayed collection is, node for node, the collection of that entry.
ViewAgreement ==
    /\ root \in DOMAIN all_pass
    /\ body = all_pass[root].nodes

\* C18 witness: directory b was deleted at the root: the list shows the
\* one directory the cache still holds there.
ViewAgreementWitness ==
    /\ calls # << >>
    /\ calls[1].func = "delete"
    /\ calls[1].returncode = 0
    /\ calls[1].path = <<NameB>>
    /\ root = << >>
    /\ Len(body) = 1
    /\ body[1].node = NameC
    /\ body[1].isdir

\* a pending field that holds nothing: never assigned, None or ''
Cleared(field) == field \in {Unset, None, EmptyStr}

\* C19: once an insert session has ended (by success, cancel or mismatch)
\* the pending name and the pending password hold no value of it.
PendingCleared ==
    edit_type \notin InsertModes => Cleared(insert_node) /\ Cleared(insert_pass)

\* C20: a left click on the row where the focused item is drawn descends
\* into the focused node if it is a directory and changes nothing if it is
\* a leaf or the empty node; a left click on another row r moves the focus
\* to the item drawn there, focus position - focused row + r clamped to
\* the collection, and leaves the current path.
ClickMapping ==
    [][\A row \in 0..(size - 1) :
          MouseWith(1, row)
            => LET drawn == RenderedRow(State, size)
                   node == body[focus_position + 1]
               IN  /\ (row = drawn /\ node.isdir)
                        => root' = join(root, node.node)
                   /\ (row = drawn /\ ~node.isdir)
                        => /\ root' = root
                           /\ body' = body
                           /\ focus_position' = focus_position
                   /\ row # drawn
                        => /\ root' = root
                           /\ focus_position' =
                                 Min(Max(focus_position - drawn + row, 0),
                                     Len(body) - 1)]_vars

\* C21: from any focus position, in a collection of any length and a
\* window of any height, the end key puts the focus on the last item and
\* the home key on the first.
JumpToEnds ==
    [][/\ Key("listbox", "G", NoResult, edit_text)
            => focus_position' = Len(body) - 1
       /\ Key("listbox", "g", NoResult, edit_text)
            => focus_position' = 0]_vars

\* C21 witness: in a list longer than the window the focus is on the last
\* item, on the last row, while the recorded position is still the first.
JumpWitness ==
    /\ Len(body) = MaxLeaves
    /\ size = 2
    /\ focus_position = Len(body) - 1
    /\ offset_rows = size - 1
    /\ all_pass[<< >>].pos = 0

\* C22: for every window height the shift of up_half_screen is the exact
\* negative of the shift of down_half_screen, so that down_half_screen
\* followed by up_half_screen returns to the original focus position
\* whenever neither step is clamped.
HalfScreenSymmetry ==
    LET down == list_navigation_offsets(State, size, "down_half_screen")
        up == list_navigation_offsets(State, size, "up_half_screen")
        there == list_navigate(State, size, down, << >>)
        back == list_navigate(there, size, up, << >>)
    IN  /\ up = -down
        /\ (/\ focus_position + down <= Len(body) - 1
            /\ there.focus_position + up >= 0)
              => back.focus_position = focus_position

\* C23: while a modal session is open no key or mouse event changes the
\* current path or the focus position, so that a confirmed delete removes the
\* node that was focused when its session was opened, and insert and
\* generate act on the path that was current when theirs was opened.
ModalFreeze ==
    [][(edit_type # NoEdit /\ edit_type' # NoEdit)
          => (root' = root /\ focus_position' = focus_position)]_vars

\* C24: when the focused node is the empty sentinel, requesting edit, or
\* confirming a requested delete, leaves the program running, calls no
\* store command and leaves the collection as the single sentinel.
SentinelHarmless ==
    [][(/\ status = "running"
        /\ body = <<EmptyNode>>
        /\ \/ Edit
           \/ \E key \in {"y", "Y", "enter"} : DeleteConfirmWith(key))
          => /\ status' = "running"
             /\ calls' = calls
             /\ body' = <<EmptyNode>>
             /\ all_pass'[root'].nodes = <<EmptyNode>>]_vars

\* C25: in every reachable state the focus position is a valid index of
\* the displayed collection, and whenever a step moves to another path the
\* cursor stored for that path, which the step restores the focus from, is
\* a valid index of that path's collection - also after deleting the last
\* element of a collection and after inserts and deletes.
ValidCursors ==
    /\ [](focus_position \in 0..(Len(body) - 1))
    /\ [][root' # root
            => /\ root' \in DOMAIN all_pass
               /\ all_pass[root'].pos \in 0..(Len(all_pass[root'].nodes) - 1)
               /\ status' = "running"
               /\ body' = all_pass[root'].nodes
               /\ focus_position' = all_pass[root'].pos]_vars

\* C25 witness: back at the root after every leaf of the directory b was
\* deleted there and the directory was left with the sentinel focused.
ValidCursorsWitness ==
    /\ root = << >>
    /\ <<NameB>> \in DOMAIN all_pass
    /\ all_pass[<<NameB>>].nodes = <<EmptyNode>>
    /\ all_pass[<<NameB>>].pos = 0
    /\ focus(State).node = NameB
    /\ status = "running"

=============================================================================
